---- MODULE Spec2Model ----
(***************************************************************************)
(* The 2048+ game of src/src/App.js (src/unnamed/part_000 carries the same *)
(* engine and the same Game2048 state machine): the board engine (spawn,   *)
(* slideLine, move, anyMovesLeft) as operators, and the Game2048 component *)
(* (reset, step, the delayed spawn callback, the modal buttons) as a state *)
(* machine.                                                                *)
(***************************************************************************)
EXTENDS Integers, Sequences, FiniteSets, TLC

\* ------------------------------------------------------------------ bounds

\* Input boards of the engine calls: at most MaxTiles tiles on the grids smaller
\* than the game's; on the game's default grid at most MaxScattered tiles
\* anywhere, or any number of tiles within one row or one column.
MaxTiles == 4
MaxScattered == 3

\* A session of the game takes a bounded number of inputs that start something
\* (accepted direction inputs and clicks on New Game, Play Again or a grid
\* size): MaxInputs when the page load restored a stored snapshot,
\* MaxFreshInputs when it drew a fresh board, and at most MaxResets of them are
\* resets. Every input is open to every state within these counts, and every
\* draw of Math.random() can return every cell and both values.
MaxInputs == 2
MaxFreshInputs == 1
MaxResets == 1

\* ------------------------------------------------------------------ tiles

\* A tile object {id, r, c, value} with the optional marks bump and dead
\* (absent in the source = FALSE here).
Tile(id, r, c, v) == [id |-> id, r |-> r, c |-> c, value |-> v, bump |-> FALSE, dead |-> FALSE]

\* The null that empty(n) fills a board with.
Null == [id |-> 0, r |-> 0, c |-> 0, value |-> 0, bump |-> FALSE, dead |-> FALSE]

\* The undefined of an array index that was never written (a hole).
Undefined == [id |-> -1, r |-> 0, c |-> 0, value |-> 0, bump |-> FALSE, dead |-> FALSE]

\* JavaScript truthiness of a board cell: a tile object, neither null nor undefined.
Truthy(x) == x /= Null /\ x /= Undefined

Max2(a, b) == IF a >= b THEN a ELSE b

\* cloneTiles: a shallow copy of every tile; values have no aliasing, so the
\* copy is the same array of records.
cloneTiles(q) == q

\* k copies of x, as an array.
RECURSIVE Fill(_, _)
Fill(x, k) == IF k = 0 THEN << >> ELSE Append(Fill(x, k - 1), x)

\* empty(n): n rows of n nulls. Rows are 1-based sequences here: cell (r, c)
\* of a board b is b[r + 1][c + 1].
empty(size) == Fill(Fill(Null, size), size)

\* toBoard throws a TypeError when a tile's row is outside the n rows of empty(n).
toBoardThrows(q, size) == \E k \in 1..Len(q) : q[k].r < 0 \/ q[k].r >= size

\* row[c] = t: an assignment beyond the row's length grows the array, leaving
\* holes between its old end and c.
SetCell(row, c, t) ==
  IF c < Len(row) THEN [row EXCEPT ![c + 1] = t]
  ELSE Append(row \o Fill(Undefined, c - Len(row)), t)

\* toBoard: b[t.r][t.c] = t for each tile in order (a later tile replaces an
\* earlier one on the same cell).
RECURSIVE toBoardFrom(_, _, _)
toBoardFrom(b, q, k) ==
  IF k > Len(q) THEN b
  ELSE toBoardFrom([b EXCEPT ![q[k].r + 1] = SetCell(@, q[k].c, q[k])], q, k + 1)

toBoard(q, size) == toBoardFrom(empty(size), q, 1)

\* ------------------------------------------------------------------ spawn

\* The empty cells of the n x n grid in the order spawn collects them (row-major).
RECURSIVE FreeFrom(_, _, _)
FreeFrom(b, size, k) ==
  IF k >= size * size THEN << >>
  ELSE LET r == k \div size
           c == k % size
       IN  IF Truthy(b[r + 1][c + 1]) THEN FreeFrom(b, size, k + 1)
           ELSE << <<r, c>> >> \o FreeFrom(b, size, k + 1)

FreeCells(q, size) == FreeFrom(toBoard(q, size), size, 0)

\* spawn past its scan of the board: free holds the empty cells it collected.
spawnOn(q, free, pick, v, id) ==
  IF Len(free) = 0 THEN q
  ELSE Append(q, Tile(id, free[pick + 1][1], free[pick + 1][2], v))

\* spawn that puts the new tile on cell (0, 0) whatever the free cells are.
spawn_OnFirstCell(q, size, pick, v, id) ==
  IF Len(FreeCells(q, size)) = 0 THEN q ELSE Append(q, Tile(id, 0, 0, v))

\* spawn without the early return of a full board.
spawn_FullBoardAppends(q, size, pick, v, id) ==
  LET free == FreeCells(q, size)
  IN  IF Len(free) = 0 THEN Append(q, Tile(id, 0, 0, v))
      ELSE Append(q, Tile(id, free[pick + 1][1], free[pick + 1][2], v))

\* spawn(tiles, n, bias) where rnd(free.length) returned pick, the comparison
\* Math.random() < bias chose v, and uid() returned id.
spawn(q, size, pick, v, id) == spawnOn(q, FreeCells(q, size), pick, v, id)

\* ------------------------------------------------------------------ slideLine

\* order: the indices 0 .. n-1, reversed when dir = +1.
RECURSIVE Keys(_)
Keys(size) == IF size = 0 THEN << >> ELSE Append(Keys(size - 1), size - 1)

RECURSIVE Reverse(_)
Reverse(s) == IF s = << >> THEN << >> ELSE Append(Reverse(Tail(s)), Head(s))

\* Mutant of Order: the indices are never reversed.
Order_NeverReversed(size, dir) == Keys(size)

Order(size, dir) == IF dir = 1 THEN Reverse(Keys(size)) ELSE Keys(size)

\* Mutant of MergeOk: the locked set is not consulted.
MergeOk_IgnoresLock(line, locked, j, t) ==
  Truthy(line[j + 1]) /\ line[j + 1].value = t.value

\* The test of both merge sites: the cell at j is not locked and holds a tile
\* of t's value.
MergeOk(line, locked, j, t) ==
  j \notin locked /\ Truthy(line[j + 1]) /\ line[j + 1].value = t.value

\* The while (true) scan: ni after the loop, starting from ni.
RECURSIVE Scan(_, _, _, _, _)
Scan(line, locked, t, ni, dir) ==
  LET j == ni + dir
  IN  IF j < 0 \/ j >= Len(line) THEN ni
      ELSE IF line[j + 1] = Null THEN Scan(line, locked, t, j, dir)
      ELSE IF MergeOk(line, locked, j, t) THEN j
      ELSE ni

\* Mutant of Settle: a slide without a merge does not set moved.
Settle_SlideNotReported(st, i, ni) ==
  LET t == st.line[i + 1]
  IN  IF ni = i THEN st
      ELSE IF MergeOk(st.line, st.locked, ni, t)
      THEN LET newVal == st.line[ni + 1].value * 2
           IN  [line   |-> [st.line EXCEPT ![ni + 1] = [@ EXCEPT !.value = newVal, !.bump = TRUE],
                                           ![i + 1] = Null],
                locked |-> st.locked \cup {ni},
                moved  |-> TRUE,
                gained |-> st.gained + newVal]
      ELSE [st EXCEPT !.line = [@ EXCEPT ![ni + 1] = t, ![i + 1] = Null]]

\* Mutant of Settle: a merge leaves the source tile on its cell.
Settle_MergeKeepsSource(st, i, ni) ==
  LET t == st.line[i + 1]
  IN  IF ni = i THEN st
      ELSE IF MergeOk(st.line, st.locked, ni, t)
      THEN LET newVal == st.line[ni + 1].value * 2
           IN  [line   |-> [st.line EXCEPT ![ni + 1] = [@ EXCEPT !.value = newVal, !.bump = TRUE]],
                locked |-> st.locked \cup {ni},
                moved  |-> TRUE,
                gained |-> st.gained + newVal]
      ELSE [st EXCEPT !.line = [@ EXCEPT ![ni + 1] = t, ![i + 1] = Null],
                      !.moved = TRUE]

\* Mutant of Settle: moved is set for a tile that stays on its index.
Settle_MovedWithoutChange(st, i, ni) ==
  LET t == st.line[i + 1]
  IN  IF ni = i THEN [st EXCEPT !.moved = TRUE]
      ELSE IF MergeOk(st.line, st.locked, ni, t)
      THEN LET newVal == st.line[ni + 1].value * 2
           IN  [line   |-> [st.line EXCEPT ![ni + 1] = [@ EXCEPT !.value = newVal, !.bump = TRUE],
                                           ![i + 1] = Null],
                locked |-> st.locked \cup {ni},
                moved  |-> TRUE,
                gained |-> st.gained + newVal]
      ELSE [st EXCEPT !.line = [@ EXCEPT ![ni + 1] = t, ![i + 1] = Null],
                      !.moved = TRUE]

\* Mutant of Settle: the merged tile is the moving tile with its value doubled.
Settle_MergeKeepsMover(st, i, ni) ==
  LET t == st.line[i + 1]
  IN  IF ni = i THEN st
      ELSE IF MergeOk(st.line, st.locked, ni, t)
      THEN LET newVal == st.line[ni + 1].value * 2
           IN  [line   |-> [st.line EXCEPT ![ni + 1] = [t EXCEPT !.value = newVal, !.bump = TRUE],
                                           ![i + 1] = Null],
                locked |-> st.locked \cup {ni},
                moved  |-> TRUE,
                gained |-> st.gained + newVal]
      ELSE [st EXCEPT !.line = [@ EXCEPT ![ni + 1] = t, ![i + 1] = Null],
                      !.moved = TRUE]

\* Mutant of Settle: a merge leaves the destination's value as it was.
Settle_MergeKeepsValue(st, i, ni) ==
  LET t == st.line[i + 1]
  IN  IF ni = i THEN st
      ELSE IF MergeOk(st.line, st.locked, ni, t)
      THEN LET newVal == st.line[ni + 1].value * 2
           IN  [line   |-> [st.line EXCEPT ![ni + 1] = [@ EXCEPT !.bump = TRUE],
                                           ![i + 1] = Null],
                locked |-> st.locked \cup {ni},
                moved  |-> TRUE,
                gained |-> st.gained + newVal]
      ELSE [st EXCEPT !.line = [@ EXCEPT ![ni + 1] = t, ![i + 1] = Null],
                      !.moved = TRUE]

\* The effect of if (ni !== i) { ... } on the loop's variables.
Settle(st, i, ni) ==
  LET t == st.line[i + 1]
  IN  IF ni = i THEN st
      ELSE IF MergeOk(st.line, st.locked, ni, t)
      THEN LET newVal == st.line[ni + 1].value * 2
           IN  [line   |-> [st.line EXCEPT ![ni + 1] = [@ EXCEPT !.value = newVal, !.bump = TRUE],
                                           ![i + 1] = Null],
                locked |-> st.locked \cup {ni},
                moved  |-> TRUE,
                gained |-> st.gained + newVal]
      ELSE [st EXCEPT !.line = [@ EXCEPT ![ni + 1] = t, ![i + 1] = Null],
                      !.moved = TRUE]

\* One iteration of for (const i of order).
SlideOne(st, i, dir) ==
  LET t == st.line[i + 1]
  IN  IF ~Truthy(t) THEN st
      ELSE Settle(st, i, Scan(st.line, st.locked, t, i, dir))

RECURSIVE SlideLoop(_, _, _, _)
SlideLoop(st, order, k, dir) ==
  IF k > Len(order) THEN st
  ELSE SlideLoop(SlideOne(st, order[k], dir), order, k + 1, dir)

\* slideLine(line, dir) = {line, moved, gained}; locked is the function's local set.
slideLine(line, dir) ==
  LET st == SlideLoop([line |-> line, locked |-> {}, moved |-> FALSE, gained |-> 0],
                      Order(Len(line), dir), 1, dir)
  IN  [line |-> st.line, moved |-> st.moved, gained |-> st.gained]

\* ------------------------------------------------------------------ move

\* b[r][c].r = r; b[r][c].c = c for the cells c < n of row r that hold a tile.
RECURSIVE PlaceRow(_, _, _, _)
PlaceRow(row, size, r, c) ==
  IF c >= size THEN row
  ELSE PlaceRow(IF Truthy(row[c + 1]) THEN [row EXCEPT ![c + 1].r = r, ![c + 1].c = c] ELSE row,
                size, r, c + 1)

\* The L / R branch from row r on: acc = {b, moved, gained} so far.
RECURSIVE MoveRows(_, _, _, _)
MoveRows(acc, size, d, r) ==
  IF r >= size THEN acc
  ELSE LET res == slideLine(acc.b[r + 1], d)
       IN  MoveRows([b      |-> [acc.b EXCEPT ![r + 1] = PlaceRow(res.line, size, r, 0)],
                     moved  |-> acc.moved \/ res.moved,
                     gained |-> acc.gained + res.gained],
                    size, d, r + 1)

\* col: the cells b[0][c] .. b[n-1][c].
RECURSIVE Column(_, _, _, _)
Column(b, size, c, r) ==
  IF r >= size THEN << >> ELSE <<b[r + 1][c + 1]>> \o Column(b, size, c, r + 1)

\* b[r][c] = res.line[r] with its r and c set, for the rows r .. n-1 of column c.
RECURSIVE PutColumn(_, _, _, _, _)
PutColumn(b, line, size, c, r) ==
  IF r >= size THEN b
  ELSE LET x == line[r + 1]
       IN  PutColumn([b EXCEPT ![r + 1][c + 1] =
                          IF Truthy(x) THEN [x EXCEPT !.r = r, !.c = c] ELSE x],
                     line, size, c, r + 1)

\* The U / D branch from column c on.
RECURSIVE MoveCols(_, _, _, _)
MoveCols(acc, size, d, c) ==
  IF c >= size THEN acc
  ELSE LET res == slideLine(Column(acc.b, size, c, 0), d)
       IN  MoveCols([b      |-> PutColumn(acc.b, res.line, size, c, 0),
                     moved  |-> acc.moved \/ res.moved,
                     gained |-> acc.gained + res.gained],
                    size, d, c + 1)

\* next: the tiles of the n x n cells in row-major order, without the dead ones.
RECURSIVE Collect(_, _, _)
Collect(b, size, k) ==
  IF k >= size * size THEN << >>
  ELSE LET x == b[(k \div size) + 1][(k % size) + 1]
       IN  IF Truthy(x) /\ ~x.dead THEN <<x>> \o Collect(b, size, k + 1)
           ELSE Collect(b, size, k + 1)

\* move(tiles, n, dir) = {tiles, moved, gained}, for a tile set toBoard accepts.
move(q, size, dir) ==
  LET start == [b |-> toBoard(cloneTiles(q), size), moved |-> FALSE, gained |-> 0]
      res   == IF dir = "L" \/ dir = "R" THEN MoveRows(start, size, IF dir = "L" THEN -1 ELSE 1, 0)
               ELSE MoveCols(start, size, IF dir = "U" THEN -1 ELSE 1, 0)
  IN  [tiles |-> Collect(res.b, size, 0), moved |-> res.moved, gained |-> res.gained]

\* ------------------------------------------------------------------ anyMovesLeft

\* Mutant of anyMovesLeft: the tile below is not compared.
anyMovesLeft_RightOnly(board) ==
  LET size == Len(board)
  IN  \E r \in 0..(size - 1), c \in 0..(size - 1) :
        LET t == board[r + 1][c + 1]
        IN  \/ ~Truthy(t)
            \/ (c + 1 < size /\ Truthy(board[r + 1][c + 2]) /\ board[r + 1][c + 2].value = t.value)

\* Mutant of anyMovesLeft: only empty cells count, equal neighbours do not.
anyMovesLeft_EmptyOnly(board) ==
  LET size == Len(board)
  IN  \E r \in 0..(size - 1), c \in 0..(size - 1) : ~Truthy(board[r + 1][c + 1])

\* anyMovesLeft(board), n = board.length: some cell among the n x n is empty,
\* or has an equal tile below or to its right.
anyMovesLeft(board) ==
  LET size == Len(board)
  IN  \E r \in 0..(size - 1), c \in 0..(size - 1) :
        LET t == board[r + 1][c + 1]
        IN  \/ ~Truthy(t)
            \/ (r + 1 < size /\ Truthy(board[r + 2][c + 1]) /\ board[r + 2][c + 1].value = t.value)
            \/ (c + 1 < size /\ Truthy(board[r + 1][c + 2]) /\ board[r + 1][c + 2].value = t.value)

\* ------------------------------------------------------------------ state

\* The Game2048 component.
VARIABLES
  n,          \* useState(4): the grid size
  tiles,      \* useState: the tile array
  score,      \* useState(0)
  best,       \* useState(0)
  busy,       \* useState(false): a move awaits its spawn
  over,       \* useState(false)
  win,        \* useState(false)
  keptGoing,  \* useState(false)
  uid,        \* the counter i of uid(): the next identity
  timers,     \* the setTimeout callbacks not yet run, oldest first, each with the
              \* values its closure captured: n, gained, res.tiles, keptGoing
  crashed,    \* a render threw: the component is unmounted
  nInputs,    \* accepted direction inputs and reset calls of this session
  nResets,    \* the reset calls among them
  loaded,     \* the page load of this session restored a stored snapshot
  restored,   \* the current game came from a stored snapshot of an earlier session
  gameMoves,  \* direction inputs accepted since the current game started
  gameGained  \* the sum of gained over those (for a restored game, from its stored score on)

gvars == <<n, tiles, score, best, busy, over, win, keptGoing, uid, timers, crashed,
           nInputs, nResets, loaded, restored, gameMoves, gameGained>>

\* ------------------------------------------------------------------ engine calls

\* The engine as called on its own: an input board, then one call.
VARIABLES
  en,      \* the grid size n passed to the call
  etiles,  \* the input tile array
  ecall,   \* "none", "move", "spawn" or "anyMovesLeft": the call made
  edir,    \* the direction passed to move ("-" otherwise)
  eres     \* the value returned: {tiles, moved, gained} of move, the tile array of
           \* spawn (in tiles); left holds anyMovesLeft's result

evars == <<en, etiles, ecall, edir, eres>>

vars == <<gvars, evars>>

\* The component before anything is mounted (the engine is called on its own).
GameUnmounted ==
  /\ n = 4 /\ tiles = << >> /\ score = 0 /\ best = 0
  /\ busy = FALSE /\ over = FALSE /\ win = FALSE /\ keptGoing = FALSE
  /\ timers = << >> /\ crashed = FALSE
  /\ nInputs = 0 /\ nResets = 0 /\ loaded = FALSE
  /\ restored = FALSE /\ gameMoves = 0 /\ gameGained = 0

Dirs == {"L", "R", "U", "D"}

\* Grid sizes of the engine calls: the engine takes any n >= 2; 4 is the game's default.
EngineSizes == 2 .. 4

\* The cells occ (numbered row-major on the n x n grid) share a row or a column.
OneLine(occ, size) ==
  \/ \E r \in 0..(size - 1) : \A k \in occ : k \div size = r
  \/ \E c \in 0..(size - 1) : \A k \in occ : k % size = c

InputCells(size) ==
  {occ \in SUBSET (0 .. size * size - 1) :
     IF size < 4 THEN Cardinality(occ) <= MaxTiles
     ELSE Cardinality(occ) <= MaxScattered \/ OneLine(occ, size)}

InputValues == {2, 4}

\* The tile array of the cells occ (numbered row-major) with the values val,
\* in row-major order, ids counted from id.
RECURSIVE MkTiles(_, _, _, _, _)
MkTiles(occ, val, size, k, id) ==
  IF k >= size * size THEN << >>
  ELSE IF k \in occ
       THEN <<Tile(id, k \div size, k % size, val[k])>> \o MkTiles(occ, val, size, k + 1, id + 1)
       ELSE MkTiles(occ, val, size, k + 1, id)

\* error is "none" when the call returned, else the exception it threw.
NoResult == [tiles |-> << >>, moved |-> FALSE, gained |-> 0, left |-> FALSE, error |-> "none"]

\* The call threw the TypeError of toBoard: nothing is returned.
Thrown == [NoResult EXCEPT !.error = "TypeError"]

EInit ==
  /\ GameUnmounted
  /\ en \in EngineSizes
  /\ \E occ \in InputCells(en) :
       \E val \in [occ -> InputValues] : etiles = MkTiles(occ, val, en, 0, 1)
  /\ uid = Len(etiles) + 1
  /\ ecall = "none"
  /\ edir = "-"
  /\ eres = NoResult

\* move(etiles, en, d) is called and its result kept.
CallMove(d) ==
  /\ ecall = "none"
  /\ ecall' = "move"
  /\ edir' = d
  /\ IF toBoardThrows(etiles, en) THEN eres' = Thrown
     ELSE LET res == move(etiles, en, d)
          IN  eres' = [NoResult EXCEPT !.tiles = res.tiles, !.moved = res.moved,
                                       !.gained = res.gained]
  /\ UNCHANGED <<en, etiles>>
  /\ UNCHANGED gvars

\* anyMovesLeft(toBoard(etiles, en)) is called and its result kept.
CallAnyMovesLeft ==
  /\ ecall = "none"
  /\ ecall' = "anyMovesLeft"
  /\ IF toBoardThrows(etiles, en) THEN eres' = Thrown
     ELSE eres' = [NoResult EXCEPT !.left = anyMovesLeft(toBoard(etiles, en))]
  /\ UNCHANGED <<en, etiles, edir>>
  /\ UNCHANGED gvars

\* The values rnd(len) = Math.floor(Math.random() * len) can return, each for
\* some Math.random() of [0, 1); on a full board spawn returns before it calls
\* rnd.
RndRange(len) == IF len = 0 THEN {0} ELSE 0 .. (len - 1)

\* spawn(etiles, en) is called with rnd(free.length) returning pick, and its
\* result kept; uid() is taken when a tile is created.
CallSpawn(pick, v) ==
  /\ ecall = "none"
  /\ ecall' = "spawn"
  /\ IF toBoardThrows(etiles, en) THEN eres' = Thrown /\ uid' = uid
     ELSE LET after == spawn(etiles, en, pick, v, uid)
          IN  /\ eres' = [NoResult EXCEPT !.tiles = after]
              /\ uid' = IF Len(after) > Len(etiles) THEN uid + 1 ELSE uid
  /\ UNCHANGED <<en, etiles, edir>>
  /\ UNCHANGED <<n, tiles, score, best, busy, over, win, keptGoing, timers, crashed,
                 nInputs, nResets, loaded, restored, gameMoves, gameGained>>

\* The values rnd can return in the spawn of the engine call; a spawn whose
\* toBoard throws does not reach rnd.
EnginePicks ==
  IF toBoardThrows(etiles, en) THEN {0} ELSE RndRange(Len(FreeCells(etiles, en)))

ENext ==
  \/ \E d \in Dirs : CallMove(d)
  \/ CallAnyMovesLeft
  \/ \E pick \in EnginePicks, v \in InputValues : CallSpawn(pick, v)

SpecEngine == EInit /\ [][ENext]_vars

\* Cells for a second tile that break the board invariant next to a tile on
\* (0, 0): the same cell, a column past the grid, a row past the grid.
BadCells(size) == {<<0, 0>>, <<0, size>>, <<size - 1, size>>, <<size, 0>>}

\* The engine called on a tile array that violates the board invariant.
EInitInvalid ==
  /\ GameUnmounted
  /\ en \in EngineSizes
  /\ \E rc \in BadCells(en), v1, v2 \in InputValues :
       etiles = <<Tile(1, 0, 0, v1), Tile(2, rc[1], rc[2], v2)>>
  /\ uid = 3
  /\ ecall = "none"
  /\ edir = "-"
  /\ eres = NoResult

SpecEngineInvalid == EInitInvalid /\ [][ENext]_vars


\* ------------------------------------------------------------------ the game

\* No engine call of its own is made while the game runs.
EngineIdle ==
  /\ en = 4 /\ etiles = << >> /\ ecall = "none" /\ edir = "-" /\ eres = NoResult

\* The tile array of a grid given by its rows of values (0 = empty), in
\* row-major order, ids counted from id.
RECURSIVE FromRows(_, _, _, _)
FromRows(rows, size, k, id) ==
  IF k >= size * size THEN << >>
  ELSE LET v == rows[(k \div size) + 1][(k % size) + 1]
       IN  IF v = 0 THEN FromRows(rows, size, k + 1, id)
           ELSE <<Tile(id, k \div size, k % size, v)>> \o FromRows(rows, size, k + 1, id + 1)

\* Snapshots persist() stored in an earlier session, as loadPersist() returns
\* them: a 4 x 4 game one cell from full, a 4 x 4 game about to reach 2048, and
\* a 5 x 5 game.
SavedGames ==
  { [n |-> 4, score |-> 40, best |-> 40, keptGoing |-> FALSE,
     tiles |-> FromRows(<< <<8, 2, 8, 0>>,
                           <<4, 2, 4, 2>>,
                           <<2, 4, 2, 4>>,
                           <<4, 2, 4, 2>> >>, 4, 0, 1)],
    [n |-> 4, score |-> 18000, best |-> 18000, keptGoing |-> FALSE,
     tiles |-> FromRows(<< <<1024, 1024, 8, 2>>,
                           <<4, 16, 0, 0>>,
                           <<0, 0, 0, 0>>,
                           <<0, 0, 0, 0>> >>, 4, 0, 1)],
    [n |-> 5, score |-> 0, best |-> 0, keptGoing |-> FALSE,
     tiles |-> FromRows(<< <<2, 4, 0, 0, 0>>,
                           <<0, 0, 0, 0, 0>>,
                           <<0, 0, 0, 0, 0>>,
                           <<0, 0, 0, 0, 0>>,
                           <<0, 0, 0, 0, 2>> >>, 5, 0, 1)] }

\* The largest tile value of a non-empty tile array: Math.max(...q.map(t => t.value)).
MaxValue(q) == CHOOSE m \in {q[k].value : k \in 1..Len(q)} : \A k \in 1..Len(q) : q[k].value <= m

GridSizes == {4, 5}

\* spawn(spawn([], nn, bias), nn, bias): the start arrays of a game on the
\* nn x nn grid, one for every pair of cells and values the two spawns can
\* draw, with the identities of a counter that stands at 1.
StartTiles ==
  [nn \in GridSizes |->
     {spawn(spawn(<< >>, nn, p1, v1, 1), nn, p2, v2, 2) :
        p1 \in RndRange(nn * nn), p2 \in RndRange(nn * nn - 1),
        v1 \in {2, 4}, v2 \in {2, 4}}]

\* The same start array when uid() returns id and id + 1.
WithIds(start, id) == [k \in 1..Len(start) |-> [start[k] EXCEPT !.id = id + k - 1]]

\* The component after its first render and the load effect: the initial state
\* spawn(spawn([], 4)) takes the identities 1 and 2; a stored snapshot, when
\* there is one, then replaces n, best, score, keptGoing and tiles.
Init ==
  /\ EngineIdle
  /\ uid = 3
  /\ busy = FALSE /\ over = FALSE /\ win = FALSE
  /\ timers = << >> /\ crashed = FALSE
  /\ nInputs = 0 /\ nResets = 0 /\ gameMoves = 0
  /\ \/ /\ n = 4 /\ score = 0 /\ best = 0 /\ keptGoing = FALSE /\ gameGained = 0
        /\ restored = FALSE /\ loaded = FALSE
        /\ tiles \in StartTiles[4]
     \/ \E g \in SavedGames :
          /\ n = g.n /\ score = g.score /\ best = g.best /\ keptGoing = g.keptGoing
          /\ tiles = g.tiles
          /\ gameGained = g.score
          /\ restored = TRUE /\ loaded = TRUE

\* The modal is rendered when over || win.
ModalOpen == over \/ win

\* Mutant of Reset: best is zeroed with the score.
Reset_ZeroesBest(nn) ==
  /\ ~crashed
  /\ \E start \in StartTiles[nn] : tiles' = WithIds(start, uid)
  /\ uid' = uid + 2
  /\ n' = nn
  /\ score' = 0 /\ best' = 0
  /\ over' = FALSE /\ win' = FALSE /\ busy' = FALSE /\ keptGoing' = FALSE
  /\ nInputs' = nInputs + 1
  /\ nResets' = nResets + 1
  /\ restored' = FALSE /\ gameMoves' = 0 /\ gameGained' = 0
  /\ UNCHANGED <<timers, crashed, loaded>>
  /\ UNCHANGED evars

\* reset(nn): New Game, Play Again / Try Again (nn = n) or a grid-size button,
\* with or without the modal on screen; its two spawns draw any of the start
\* arrays. The pending timeouts are not cleared.
Reset(nn) ==
  /\ ~crashed
  /\ \E start \in StartTiles[nn] : tiles' = WithIds(start, uid)
  /\ uid' = uid + 2
  /\ n' = nn
  /\ score' = 0
  /\ over' = FALSE /\ win' = FALSE /\ busy' = FALSE /\ keptGoing' = FALSE
  /\ nInputs' = nInputs + 1
  /\ nResets' = nResets + 1
  /\ restored' = FALSE /\ gameMoves' = 0 /\ gameGained' = 0
  /\ UNCHANGED <<best, timers, crashed, loaded>>
  /\ UNCHANGED evars

\* Mutant of StepGuard: step also returns while the win modal is up.
StepGuard_BlockedByWin == ~(busy \/ over \/ win)

\* if (busy || over) return; the input is looked at only past this line.
StepGuard == ~(busy \/ over)

\* step(dir) from its guard on, when the res that move(tiles, n, dir) returned
\* reports moved: the tiles are replaced, busy is set and the spawn is scheduled
\* with the values of this render.
Accepted(dir, res) ==
  /\ ~crashed
  /\ StepGuard
  /\ res.moved
  /\ tiles' = res.tiles
  /\ timers' = Append(timers, [n |-> n, gained |-> res.gained, tiles |-> res.tiles,
                               keptGoing |-> keptGoing])
  /\ gameGained' = gameGained + res.gained
  /\ busy' = TRUE
  /\ nInputs' = nInputs + 1
  /\ gameMoves' = gameMoves + 1
  /\ UNCHANGED <<n, score, best, over, win, keptGoing, uid, crashed, nResets, loaded, restored>>
  /\ UNCHANGED evars

\* step(dir) on a direction input that moves tiles.
StepAccepted(dir) == Accepted(dir, move(tiles, n, dir))

\* Mutant of StepRejected: the spawn is scheduled although nothing moved.
StepRejected_SchedulesSpawn(dir) ==
  /\ ~crashed
  /\ StepGuard
  /\ ~anyMovesLeft(toBoard(tiles, n))
  /\ ~move(tiles, n, dir).moved
  /\ over' = TRUE
  /\ busy' = FALSE
  /\ timers' = Append(timers, [n |-> n, gained |-> 0, tiles |-> tiles, keptGoing |-> keptGoing])
  /\ UNCHANGED <<n, tiles, score, best, win, keptGoing, uid, crashed,
                 nInputs, nResets, loaded, restored, gameMoves, gameGained>>
  /\ UNCHANGED evars

\* step(dir) when move() reports no movement: over is set when the rendered
\* board has no moves left, and busy goes back to false. On a board with moves
\* left the handler leaves every variable as it was (a stuttering step).
StepRejected(dir) ==
  /\ ~crashed
  /\ StepGuard
  /\ ~anyMovesLeft(toBoard(tiles, n))
  /\ ~move(tiles, n, dir).moved
  /\ over' = TRUE
  /\ busy' = FALSE
  /\ UNCHANGED <<n, tiles, score, best, win, keptGoing, uid, timers, crashed,
                 nInputs, nResets, loaded, restored, gameMoves, gameGained>>
  /\ UNCHANGED evars

\* Mutant of Resolve: the win test asks for a tile above 2048.
Resolve_WinAbove2048(cb, after) ==
  IF toBoardThrows(after, n)
  THEN /\ crashed' = TRUE
       /\ uid' = IF Len(after) > Len(tiles) THEN uid + 1 ELSE uid
       /\ UNCHANGED <<tiles, score, best, win, over, busy>>
  ELSE /\ tiles' = after
       /\ uid' = IF Len(after) > Len(tiles) THEN uid + 1 ELSE uid
       /\ score' = score + cb.gained
       /\ best' = Max2(best, score + cb.gained)
       /\ win' = (win \/ (MaxValue(cb.tiles) > 2048 /\ ~cb.keptGoing))
       /\ over' = (over \/ ~anyMovesLeft(toBoard(cb.tiles, cb.n)))
       /\ busy' = FALSE
       /\ crashed' = FALSE

\* The setTimeout callback cb once spawn has returned after: the render of
\* after throws and unmounts the component (spawn has taken its uid() by
\* then), or the callback's updates are committed; the win and over tests
\* read the res.tiles and keptGoing of the closure.
Resolve(cb, after) ==
  IF toBoardThrows(after, n)
  THEN /\ crashed' = TRUE
       /\ uid' = IF Len(after) > Len(tiles) THEN uid + 1 ELSE uid
       /\ UNCHANGED <<tiles, score, best, win, over, busy>>
  ELSE /\ tiles' = after
       /\ uid' = IF Len(after) > Len(tiles) THEN uid + 1 ELSE uid
       /\ score' = score + cb.gained
       /\ best' = Max2(best, score + cb.gained)
       /\ win' = (win \/ (MaxValue(cb.tiles) >= 2048 /\ ~cb.keptGoing))
       /\ over' = (over \/ ~anyMovesLeft(toBoard(cb.tiles, cb.n)))
       /\ busy' = FALSE
       /\ crashed' = FALSE

\* The callback cb from spawn's draw on: free holds the empty cells spawn
\* collected, rnd(free.length) returns any index of it, and the value is 2 or 4.
Drawn(cb, free) ==
  \E pick \in RndRange(Len(free)), v \in {2, 4} :
    \E after \in {spawnOn(tiles, free, pick, v, uid)} : Resolve(cb, after)

\* The setTimeout callback of the oldest pending step. spawn runs on the current
\* tiles with the n of its closure; a toBoard that throws in spawn unmounts the
\* component before a cell is drawn.
TimerFires ==
  /\ timers /= << >>
  /\ timers' = Tail(timers)
  /\ LET cb == Head(timers)
     IN  IF crashed THEN UNCHANGED <<tiles, uid, score, best, win, over, busy, crashed>>
         ELSE IF toBoardThrows(tiles, cb.n)
         THEN crashed' = TRUE /\ UNCHANGED <<tiles, uid, score, best, win, over, busy>>
         ELSE \E free \in {FreeCells(tiles, cb.n)} : Drawn(cb, free)
  /\ UNCHANGED <<n, keptGoing, nInputs, nResets, loaded, restored, gameMoves, gameGained>>
  /\ UNCHANGED evars

\* The Keep Going button of the win modal.
KeepGoing ==
  /\ ~crashed
  /\ win
  /\ win' = FALSE
  /\ keptGoing' = TRUE
  /\ UNCHANGED <<n, tiles, score, best, busy, over, uid, timers, crashed,
                 nInputs, nResets, loaded, restored, gameMoves, gameGained>>
  /\ UNCHANGED evars

\* The Close button of the modal.
Close ==
  /\ ~crashed
  /\ ModalOpen
  /\ over' = FALSE
  /\ win' = FALSE
  /\ UNCHANGED <<n, tiles, score, best, busy, keptGoing, uid, timers, crashed,
                 nInputs, nResets, loaded, restored, gameMoves, gameGained>>
  /\ UNCHANGED evars

\* The session is followed through one more input.
InputOpen == nInputs < (IF loaded THEN MaxInputs ELSE MaxFreshInputs)

\* The sessions within the input counts: every handler is open in every state.
Next ==
  \/ InputOpen /\ nResets < MaxResets /\ \E nn \in GridSizes : Reset(nn)
  \/ InputOpen /\ \E dir \in Dirs : StepAccepted(dir)
  \/ \E dir \in Dirs : StepRejected(dir)
  \/ TimerFires
  \/ KeepGoing
  \/ Close

Spec == Init /\ [][Next]_vars

\* One long session: a direction input, New Game before its spawn is due, then
\* the fifteen direction inputs ReplayDirs, each typed as soon as busy is
\* cleared. New Game draws two tiles of value 4, the spawned tiles draw the
\* values ReplayValues in turn, and every cell is drawn with Math.random() = 3/4.
ReplayDirs == <<"L", "L", "L", "R", "L", "L", "L", "R", "L", "R", "L", "R", "L", "L", "R">>
ReplayValues == <<2, 4, 2, 2, 2, 4, 4, 4, 2, 2, 2, 4, 4, 4, 2>>

\* The callbacks that have run so far in the session.
TimersRun == (IF nInputs >= 2 THEN nInputs - 1 ELSE nInputs) - Len(timers)

\* The value the next callback's spawn draws.
ReplayValue ==
  IF TimersRun < Len(ReplayValues) THEN {ReplayValues[TimersRun + 1]} ELSE {2, 4}

\* rnd(len) for Math.random() = 3/4.
ReplayPick(len) == (3 * len) \div 4

\* The start array of a reset that draws both cells with Math.random() = 3/4
\* and two tiles of value 4, uid() returning id and id + 1.
ReplayStart(nn, id) ==
  spawn(spawn(<< >>, nn, ReplayPick(nn * nn), 4, id), nn, ReplayPick(nn * nn - 1), 4, id + 1)

NextReplay ==
  \/ nInputs = 0 /\ \E dir \in Dirs : StepAccepted(dir)
  \/ /\ nInputs = 1
     /\ tiles' = ReplayStart(n, uid)
     /\ Reset(n)
  \/ /\ nInputs >= 2
     /\ nInputs - 1 <= Len(ReplayDirs)
     /\ StepAccepted(ReplayDirs[nInputs - 1])
  \/ \E dir \in Dirs : StepRejected(dir)
  \/ /\ TimerFires
     /\ Len(tiles') > Len(tiles) =>
          /\ tiles'[Len(tiles')].value \in ReplayValue
          /\ LET free == FreeCells(tiles, Head(timers).n)
                 t == tiles'[Len(tiles')]
             IN  <<t.r, t.c>> = free[ReplayPick(Len(free)) + 1]
  \/ Close

SpecReplay == Init /\ [][NextReplay]_vars

\* One session of fast input: the 5 x 5 button and a move to the left, PileUp
\* times over, each click before the spawn of the move before it has run, then
\* the 4 x 4 button; the callbacks run after that, and a direction key is
\* pressed. Every reset draws the start array ReplayStart; every callback draws
\* Math.random() = 0 for its cell (the first free cell its spawn found) and a
\* value of PileValues for that cell.
PileUp == 4 * 4 + 1

PileValues(r, c) == IF c >= 4 THEN {2, 4} ELSE IF (r + c) % 2 = 0 THEN {2} ELSE {4}

\* What spawn returns in the oldest callback when it draws so.
PileSpawns ==
  LET free == FreeCells(tiles, Head(timers).n)
  IN  IF free = << >> THEN {tiles}
      ELSE {spawnOn(tiles, free, 0, v, uid) : v \in PileValues(free[1][1], free[1][2])}

NextPileUp ==
  \/ /\ nInputs < 2 * PileUp
     /\ nInputs % 2 = 0
     /\ tiles' = ReplayStart(5, uid)
     /\ Reset(5)
  \/ /\ nInputs < 2 * PileUp
     /\ nInputs % 2 = 1
     /\ StepAccepted("L")
  \/ /\ nInputs = 2 * PileUp
     /\ tiles' = ReplayStart(4, uid)
     /\ Reset(4)
  \/ /\ nInputs > 2 * PileUp
     /\ timers /= << >>
     /\ tiles' \in PileSpawns
     /\ TimerFires
  \/ \E dir \in Dirs : StepRejected(dir)

SpecPileUp == Init /\ [][NextPileUp]_vars

\* The timer does its work: a callback that stays scheduled runs.
TimerFair == WF_vars(TimerFires)

\* The sessions of a restored game under that scheduling that take a move, a
\* click on a grid-size button (its reset drawing the start array ReplayStart)
\* and a move to the left in the new game; the callbacks draw any cell and
\* value.
NextUnmount ==
  \/ nInputs = 0 /\ \E dir \in Dirs : StepAccepted(dir)
  \/ /\ nInputs = 1
     /\ \E nn \in GridSizes : tiles' = ReplayStart(nn, uid) /\ Reset(nn)
  \/ nInputs = 2 /\ StepAccepted("L")
  \/ \E dir \in Dirs : StepRejected(dir)
  \/ TimerFires
  \/ KeepGoing
  \/ Close

\* The page loads that restored a snapshot.
InitLoaded == Init /\ loaded

SpecUnmount == InitLoaded /\ [][NextUnmount]_vars /\ TimerFair

\* ------------------------------------------------------------------ engine claims

SeqSet(q) == {q[k] : k \in 1..Len(q)}

\* f[1] + ... + f[k].
RECURSIVE SumTo(_, _)
SumTo(f, k) == IF k = 0 THEN 0 ELSE f[k] + SumTo(f, k - 1)

RECURSIVE SumValues(_)
SumValues(q) == IF q = << >> THEN 0 ELSE Head(q).value + SumValues(Tail(q))

\* The tile of array q that carries identity id.
ById(q, id) == CHOOSE t \in SeqSet(q) : t.id = id

\* Classic 2048 on a line of values read from the target edge (0 = empty): the
\* tiles packed in their order, each pair of equal neighbours merged once.
RECURSIVE MergePairs(_)
MergePairs(q) ==
  IF Len(q) < 2 THEN [line |-> q, gained |-> 0]
  ELSE IF q[1] = q[2]
       THEN LET rest == MergePairs(Tail(Tail(q)))
            IN  [line |-> <<2 * q[1]>> \o rest.line, gained |-> 2 * q[1] + rest.gained]
       ELSE LET rest == MergePairs(Tail(q))
            IN  [line |-> <<q[1]>> \o rest.line, gained |-> rest.gained]

Classic(q) ==
  LET m == MergePairs(SelectSeq(q, LAMBDA v : v /= 0))
  IN  [line   |-> [k \in 1..Len(q) |-> IF k <= Len(m.line) THEN m.line[k] ELSE 0],
       gained |-> m.gained]

\* The value at cell (r, c) of a tile array, by the tiles' own r and c (0 = none).
ValueAt(q, r, c) ==
  IF \E t \in SeqSet(q) : t.r = r /\ t.c = c
  THEN (CHOOSE t \in SeqSet(q) : t.r = r /\ t.c = c).value
  ELSE 0

\* Line i of the grid of tile array q as direction dir reads it, from the target edge.
LineOf(q, size, dir, i) ==
  [k \in 1..size |->
     IF dir = "L" THEN ValueAt(q, i, k - 1)
     ELSE IF dir = "R" THEN ValueAt(q, i, size - k)
     ELSE IF dir = "U" THEN ValueAt(q, k - 1, i)
     ELSE ValueAt(q, size - k, i)]

DistinctCells(q) ==
  \A j, k \in 1..Len(q) : j /= k => (q[j].r /= q[k].r \/ q[j].c /= q[k].c)

InGrid(q, size) == \A k \in 1..Len(q) : q[k].r \in 0..(size - 1) /\ q[k].c \in 0..(size - 1)

\* C1: move() returns the board of classic 2048 line reduction applied to every
\* row (L/R) or column (U/D): each line of the returned tiles, read by the tiles'
\* own r and c, is the classic reduction of the input line; the returned tiles sit
\* on distinct cells of the grid; moved is the OR over the lines of "the line
\* changed" and gained the sum of the lines' merge values.
C1_MoveIsClassic ==
  ecall = "move" =>
    LET ref == [i \in 0..(en - 1) |-> Classic(LineOf(etiles, en, edir, i))]
    IN  /\ \A i \in 0..(en - 1) : LineOf(eres.tiles, en, edir, i) = ref[i].line
        /\ DistinctCells(eres.tiles)
        /\ InGrid(eres.tiles, en)
        /\ eres.moved = (\E i \in 0..(en - 1) : ref[i].line /= LineOf(etiles, en, edir, i))
        /\ eres.gained = SumTo([k \in 1..en |-> ref[k - 1].gained], en)

\* A full line of four equal tiles was reduced: two merges in one line.
C1_Witness ==
  /\ ecall = "move"
  /\ en = 4
  /\ Len(etiles) = 4
  /\ Len(eres.tiles) = 2
  /\ eres.gained = 16
  /\ \E i \in 0..3 : LineOf(eres.tiles, en, edir, i) = <<8, 8, 0, 0>>

\* C2: no tile takes part in two merges of one move() call: every returned tile
\* carries the identity of an input tile and has that tile's value or twice it
\* (never four times), and the tiles that doubled are as many as the tiles that
\* left the board (a merge product is never consumed by a later merge).
C2_AtMostOneMerge ==
  ecall = "move" =>
    LET ids     == {t.id : t \in SeqSet(etiles)}
        doubled == {t \in SeqSet(eres.tiles) : t.id \in ids /\ t.value = 2 * ById(etiles, t.id).value}
    IN  /\ \A t \in SeqSet(eres.tiles) :
             /\ t.id \in ids
             /\ t.value = ById(etiles, t.id).value \/ t.value = 2 * ById(etiles, t.id).value
        /\ Cardinality(doubled) = Len(etiles) - Len(eres.tiles)

\* A merge product came to rest next to a tile of its own new value: [2,2,4].
C2_Witness ==
  /\ ecall = "move"
  /\ eres.gained = 4
  /\ \E a, b \in SeqSet(eres.tiles) :
       /\ a.id /= b.id
       /\ a.value = 4 /\ b.value = 4
       /\ ById(etiles, a.id).value = 2
       /\ ById(etiles, b.id).value = 4
       /\ \/ (a.r = b.r /\ (a.c - b.c = 1 \/ b.c - a.c = 1))
          \/ (a.c = b.c /\ (a.r - b.r = 1 \/ b.r - a.r = 1))

\* C3: when move() returns moved = false, gained is 0 and the returned tiles are
\* the input tiles: the same identities on the same cells with the same values.
C3_RejectedMoveUnchanged ==
  (ecall = "move" /\ ~eres.moved) =>
    /\ eres.gained = 0
    /\ SeqSet(eres.tiles) = SeqSet(etiles)
    /\ Len(eres.tiles) = Len(etiles)

\* Tiles packed against the edge, none equal to its neighbour: the move is rejected.
C3_Witness ==
  /\ ecall = "move"
  /\ ~eres.moved
  /\ Len(etiles) >= 3

\* C4 as stated: the returned values sum to the input's sum plus gained.
C4_SumGrowsByGained ==
  ecall = "move" => SumValues(eres.tiles) = SumValues(etiles) + eres.gained

\* C4, amended: move() keeps the sum of the tile values (a merge replaces two
\* tiles of value v by one of 2v), and gained is the sum of the values of the
\* returned tiles whose value differs from their input value (the merge products).
C4_SumKeptGainedIsMerged ==
  ecall = "move" =>
    /\ SumValues(eres.tiles) = SumValues(etiles)
    /\ eres.gained =
         SumValues(SelectSeq(eres.tiles,
                             LAMBDA t : \E u \in SeqSet(etiles) : u.id = t.id /\ u.value /= t.value))

\* A move with merges in two lines.
C4_Witness ==
  /\ ecall = "move"
  /\ eres.gained = 12
  /\ Len(etiles) - Len(eres.tiles) = 2

\* Some tile of q has no room: the grid of n x n cells is full.
Full(q, size) == \A r \in 0..(size - 1), c \in 0..(size - 1) : ValueAt(q, r, c) /= 0

\* Two tiles of q on neighbouring cells of a row or a column have equal values.
EqualNeighbours(q) ==
  \E a, b \in SeqSet(q) :
    /\ a.value = b.value
    /\ \/ (a.r = b.r /\ b.c = a.c + 1)
       \/ (a.c = b.c /\ b.r = a.r + 1)

\* C5: anyMovesLeft returns false exactly when the board has no empty cell and
\* no two horizontally or vertically adjacent cells hold equal values.
C5_TerminalExact ==
  ecall = "anyMovesLeft" =>
    (eres.left = FALSE <=> (Full(etiles, en) /\ ~EqualNeighbours(etiles)))

\* A full board without equal neighbours was judged: no moves left.
C5_Witness ==
  /\ ecall = "anyMovesLeft"
  /\ eres.left = FALSE
  /\ Len(etiles) = en * en

\* C11: spawn on a board with at least one empty cell returns the input tiles
\* unchanged, followed by exactly one new tile of value 2 or 4 on a cell of the
\* grid that was empty in the input.
C11_SpawnAddsOneTile ==
  (ecall = "spawn" /\ ~Full(etiles, en)) =>
    /\ Len(eres.tiles) = Len(etiles) + 1
    /\ SubSeq(eres.tiles, 1, Len(etiles)) = etiles
    /\ LET t == eres.tiles[Len(eres.tiles)]
       IN  /\ t.value \in {2, 4}
           /\ t.r \in 0..(en - 1) /\ t.c \in 0..(en - 1)
           /\ ValueAt(etiles, t.r, t.c) = 0

\* A tile was spawned on a board whose cell (0, 0) was taken and that had more
\* than one empty cell; the draw did not pick the first of them.
C11_Witness ==
  /\ ecall = "spawn"
  /\ ValueAt(etiles, 0, 0) /= 0
  /\ Len(eres.tiles) = Len(etiles) + 1
  /\ Len(FreeCells(etiles, en)) > 1
  /\ LET t == eres.tiles[Len(eres.tiles)]
     IN  <<t.r, t.c>> /= FreeCells(etiles, en)[1]

\* C12: spawn on a board with no empty cell returns the input tile array as it
\* is, and toBoard does not throw on it.
C12_SpawnFullBoardNoOp ==
  (ecall = "spawn" /\ Full(etiles, en)) =>
    /\ eres.tiles = etiles
    /\ ~toBoardThrows(etiles, en)

\* spawn was called on a full board.
C12_Witness ==
  /\ ecall = "spawn"
  /\ Len(etiles) = en * en
  /\ Full(etiles, en)
  /\ uid = Len(etiles) + 1

\* C19: given a tile array that violates the board invariant (two tiles on one
\* cell, or a row or column outside [0, n)), move and spawn stop with an error
\* and return no tile array.
C19_InvalidBoardRejected ==
  (ecall \in {"move", "spawn"} /\ ~(DistinctCells(etiles) /\ InGrid(etiles, en))) =>
    eres.error /= "none"

\* C20: move() returns moved = true only when the result differs from the
\* input: some input tile is gone (merged away) or sits on another cell or
\* carries another value.
C20_MovedOnlyIfChanged ==
  (ecall = "move" /\ eres.moved) =>
    \E t \in SeqSet(etiles) :
      \A u \in SeqSet(eres.tiles) :
        u.id = t.id => (u.r /= t.r \/ u.c /= t.c \/ u.value /= t.value)

\* A move whose only change is a merge: every returned tile is on its input cell.
C20_Witness ==
  /\ ecall = "move"
  /\ eres.moved
  /\ Len(eres.tiles) < Len(etiles)
  /\ \A u \in SeqSet(eres.tiles) : ById(etiles, u.id).r = u.r /\ ById(etiles, u.id).c = u.c

\* Some direction moves the tile array q on the grid of the given size.
SomeDirMoves(q, size) == \E d \in Dirs : move(q, size, d).moved

\* C21 as stated: on every valid board anyMovesLeft is true exactly when some
\* direction gives moved = true.
C21_DetectorAgreesWithMover ==
  ecall = "anyMovesLeft" => (eres.left <=> SomeDirMoves(etiles, en))

\* C21, amended: the equivalence holds on every valid board that holds at least
\* one tile; on the board without tiles anyMovesLeft is true and no direction
\* moves.
C21_DetectorAgreesOnTiles ==
  ecall = "anyMovesLeft" =>
    IF etiles = << >> THEN eres.left /\ ~SomeDirMoves(etiles, en)
    ELSE eres.left <=> SomeDirMoves(etiles, en)

\* A full board was judged to have moves left: only a merge can move it.
C21_Witness ==
  /\ ecall = "anyMovesLeft"
  /\ eres.left
  /\ Len(etiles) = en * en
  /\ SomeDirMoves(etiles, en)

\* t is nearer than s to the edge that direction dir moves to, on s's line.
Nearer(t, s, dir) ==
  IF dir = "L" THEN t.r = s.r /\ t.c < s.c
  ELSE IF dir = "R" THEN t.r = s.r /\ t.c > s.c
  ELSE IF dir = "U" THEN t.c = s.c /\ t.r < s.r
  ELSE t.c = s.c /\ t.r > s.r

\* C22: every tile move() returns carries the identity of an input tile; for
\* every input tile s whose identity is absent from the result there is an
\* input tile t of the same value, nearer the target edge on s's line, whose
\* identity is returned with the value doubled.
C22_NoNewIdentities ==
  ecall = "move" =>
    /\ \A u \in SeqSet(eres.tiles) : \E t \in SeqSet(etiles) : t.id = u.id
    /\ \A s \in SeqSet(etiles) :
         (\A u \in SeqSet(eres.tiles) : u.id /= s.id) =>
           \E t \in SeqSet(etiles) :
             /\ t.value = s.value
             /\ Nearer(t, s, edir)
             /\ \E u \in SeqSet(eres.tiles) : u.id = t.id /\ u.value = 2 * t.value

\* A merge in a line of three equal tiles: the pair nearest the edge merged.
C22_Witness ==
  /\ ecall = "move"
  /\ edir = "R"
  /\ eres.gained = 4
  /\ \E a, b, c \in SeqSet(etiles) :
       /\ a.r = b.r /\ b.r = c.r
       /\ a.c < b.c /\ b.c < c.c
       /\ a.value = 2 /\ b.value = 2 /\ c.value = 2
       /\ \A u \in SeqSet(eres.tiles) : u.id /= b.id
       /\ \E u \in SeqSet(eres.tiles) : u.id = c.id /\ u.value = 4
       /\ \E u \in SeqSet(eres.tiles) : u.id = a.id /\ u.value = 2

\* The tiles of q that carry the merge marker.
Bumped(q) == SelectSeq(q, LAMBDA t : t.bump)

\* C27: move() keeps the sum of the tile values, and returns as many tiles as it
\* was given minus the merges it performed (the tiles it marked as merged).
C27_SumAndCount ==
  ecall = "move" =>
    /\ SumValues(eres.tiles) = SumValues(etiles)
    /\ Len(eres.tiles) = Len(etiles) - Len(Bumped(eres.tiles))

\* A move with two merges.
C27_Witness ==
  /\ ecall = "move"
  /\ Len(Bumped(eres.tiles)) = 2
  /\ Len(eres.tiles) = Len(etiles) - 2

\* ------------------------------------------------------------------ game claims

\* C6: in every state of the game no two tiles occupy the same cell and every
\* tile's row and column lie in [0, n) for the grid size n in effect.
C6_TilesOnGrid == DistinctCells(tiles) /\ InGrid(tiles, n)

\* C7: at most one delayed spawn is outstanding at any time.
C7_OneSpawnOutstanding == Len(timers) <= 1

\* C8: when the spawn that resolves an accepted move leaves a board with no
\* moves remaining, over is set by that same callback.
C8_OverSetWithSpawn ==
  [][(/\ timers /= << >>
      /\ timers' = Tail(timers)
      /\ ~crashed'
      /\ ~busy'
      /\ ~anyMovesLeft(toBoard(tiles', n'))) => over']_vars

\* C9: whenever no spawn is pending, score is the sum of the gained values of the
\* moves accepted since the current game started.
C9_ScoreIsGameGained == (timers = << >> /\ ~crashed) => score = gameGained

\* C10: a game started in this session (mount without a snapshot, or reset) shows
\* exactly two tiles of value 2 or 4 on distinct cells of its grid until a
\* direction input is accepted in it.
C10_TwoTilesUntilMove ==
  (~restored /\ gameMoves = 0) =>
    /\ Len(tiles) = 2
    /\ \A k \in 1..Len(tiles) : tiles[k].value \in {2, 4}
    /\ DistinctCells(tiles)
    /\ InGrid(tiles, n)

\* C13: no two tiles on the board carry the same identity.
C13_IdentitiesUnique ==
  \A j, k \in 1..Len(tiles) : j /= k => tiles[j].id /= tiles[k].id

\* C14: a direction input for which move() reports moved = false schedules no
\* spawn and leaves tiles, score, best and the identity counter as they were:
\* setting over is all it does. (A rejected input that does not set over
\* changes nothing; the other handler that can set over, the callback, takes
\* a timer away.)
C14_RejectedStepFrame ==
  [][(~over /\ over' /\ Len(timers') >= Len(timers)) =>
       /\ timers' = timers
       /\ tiles' = tiles /\ score' = score /\ best' = best /\ uid' = uid
       /\ n' = n /\ win' = win /\ keptGoing' = keptGoing /\ busy' = busy]_vars

\* A direction input was rejected on a full board and set over.
C14_Witness ==
  /\ over /\ ~busy /\ ~crashed
  /\ timers = << >>
  /\ Full(tiles, n)
  /\ gameMoves >= 1

\* C15: after Keep Going, win is not set again before a reset.
C15_NoWinAfterKeepGoing == keptGoing => ~win

\* C16: the callback of an accepted move that left a tile of value >= 2048 sets
\* win when Keep Going has not been chosen, neither when the move was accepted
\* nor by the time the callback runs.
C16_WinSetOnResolve ==
  [][(/\ timers /= << >>
      /\ timers' = Tail(timers)
      /\ ~crashed'
      /\ ~keptGoing
      /\ ~Head(timers).keptGoing
      /\ MaxValue(Head(timers).tiles) >= 2048) => win']_vars

\* The move that made 2048 has resolved and the win modal is up.
C16_Witness ==
  /\ win /\ ~keptGoing /\ ~busy
  /\ timers = << >>
  /\ gameMoves >= 1
  /\ MaxValue(tiles) >= 2048

\* C17: with win set, over false and no spawn pending, a direction input that
\* moves tiles is taken: step can run to its end with what move() returned,
\* replacing the tiles and scheduling one spawn, win and over staying as they
\* are.
C17_WinDoesNotBlockPlay ==
  (win /\ ~over /\ ~busy /\ ~crashed /\ timers = << >>) =>
    \A dir \in Dirs : \A res \in {move(tiles, n, dir)} :
      res.moved =>
        ENABLED (/\ Accepted(dir, res)
                 /\ tiles' = res.tiles
                 /\ Len(timers') = 1
                 /\ busy' /\ win' /\ ~over')

\* A second move was accepted while the win of the first was still showing.
C17_Witness ==
  /\ win /\ busy /\ restored
  /\ gameMoves = 2
  /\ Len(timers) = 1

\* C18: while over is set, the tile array and the score stay as they are.
C18_FrozenWhileOver ==
  [][(over /\ over') => (tiles' = tiles /\ score' = score)]_vars

\* C26: in the tile array an accepted step takes from move(), a tile carries
\* the merge marker only when this call doubled it.
C26_BumpOnlyFromThisMove ==
  [][\A dir \in Dirs :
       (gameMoves' = gameMoves + 1 /\ StepAccepted(dir)) =>
         \A u \in SeqSet(tiles') :
           u.bump => \E t \in SeqSet(tiles) : t.id = u.id /\ u.value = 2 * t.value]_vars

\* C23: whenever over is set, the board has no moves remaining: it is full,
\* without equal neighbours, anyMovesLeft is false and no direction moves it.
C23_OverOnlyWhenStuck ==
  (over /\ ~crashed) =>
    /\ Full(tiles, n)
    /\ ~EqualNeighbours(tiles)
    /\ ~anyMovesLeft(toBoard(tiles, n))
    /\ ~SomeDirMoves(tiles, n)

\* C24: whenever win is set, the board holds a tile of value >= 2048.
C24_WinOnlyWith2048 == win => MaxValue(tiles) >= 2048

\* C25: busy does not stay true: an accepted move is followed by its callback,
\* which clears busy.
C25_BusyIsCleared == busy ~> ~busy

\* C28: best is never smaller than score, and best never decreases.
C28_BestBoundsScore ==
  /\ [](best >= score)
  /\ [][best' >= best]_vars

\* A move of the game a reset started has resolved below the best of the game
\* before it.
C28_Witness ==
  /\ nResets = 1
  /\ gameMoves >= 1
  /\ timers = << >>
  /\ score > 0
  /\ best > score

====
